---- MODULE Spec2Model ----
(***************************************************************************)
(* The loop recording / playback engine of looper_v0.6.py: the audio       *)
(* callback, the control operations (toggle_record, reset_loop,            *)
(* toggle_playback, toggle_monitor, record_for_duration), the one-shot     *)
(* timers of record_for_duration and the monitor consumer.                 *)
(*                                                                         *)
(* Threads.  The callback runs on the audio driver's thread.  The control  *)
(* operations run on the user's threads (buttons, lines 311-338; hotkeys,  *)
(* lines 371-374) and on one thread per threading.Timer (line 178).        *)
(* Nothing serialises them, so every operation is cut into one step per    *)
(* access to shared state, and the steps of different threads interleave.  *)
(*                                                                         *)
(* Samples.  The driver delivers frames numbered 1, 2, 3, ... (clock), so  *)
(* every captured frame is distinguishable; silence is 0.  A block is a    *)
(* sequence of frames (CHANNELS = 1).                                      *)
(***************************************************************************)
EXTENDS Integers, Sequences, FiniteSets, TLC

\* Bounds of the model.
MaxInput == 4      \* frames the driver delivers in a behaviour
MaxBlock == 3      \* largest block the driver hands to the callback
MonitorCapacity == 2   \* a capacity to hold monitor_queue against

VARIABLES
    loop_buffer,      \* line 28: the loop, a sequence of frames
    record_queue,     \* line 30: queue.Queue of captured blocks
    monitor_queue,    \* line 31: queue.Queue of blocks for the monitor consumer
    is_recording,     \* line 32
    is_playing,       \* line 33
    monitor_enabled,  \* line 34
    playback_index,   \* line 35
    buffer_lock,      \* line 29: TRUE while the callback holds it
    clock,            \* frames delivered by the driver so far
    cb_pc,            \* position of audio_callback
    indata,           \* the callback's input block
    outdata,          \* the callback's output block (<<>>: not populated)
    cb_length,        \* local `length` of audio_callback (line 89)
    cb_end,           \* local `end` of audio_callback (line 90)
    chunk,            \* local `chunk` of audio_callback (lines 92, 94)
    cb_error,         \* exception that left audio_callback, "none" if none
    pc,               \* position of every control thread
    frames,           \* local `frames` of toggle_record, per thread (line 121)
    monitor_alive,    \* the consumer loop of start_monitor_stream is running
    solo,             \* history: the control thread whose operation in progress
                      \*   has run without a step of another control thread
    session,          \* history: blocks put on record_queue since recording
                      \*   was last switched on
    superseded,       \* history: timers that were pending when a recording
                      \*   was switched off
    drain_start       \* history: record_queue as the stop in progress found it
                      \*   at its first test of line 122

vars == <<loop_buffer, record_queue, monitor_queue, is_recording, is_playing,
          monitor_enabled, playback_index, buffer_lock, clock, cb_pc, indata,
          outdata, cb_length, cb_end, chunk, cb_error, pc, frames,
          monitor_alive, solo, session, superseded, drain_start>>

shared == <<loop_buffer, record_queue, monitor_queue, is_recording, is_playing,
            monitor_enabled, playback_index, buffer_lock>>

cbvars == <<clock, cb_pc, indata, outdata, cb_length, cb_end, chunk, cb_error>>

----------------------------------------------------------------------------
\* Threads

\* The Tk main thread and the hotkey listener's thread are taken together as
\* one user thread: the user's operations come one at a time, and the
\* timers' threads run beside them.
USER == <<"user", 0>>
NoThread == <<"none", 0>>
Users == {USER}
\* One timer of record_for_duration is alive at a time.
TIMER == <<"timer", 0>>
Timers == {TIMER}
Threads == Users \cup Timers

\* Where a thread rests between operations.
Rest(t) == IF t \in Users THEN "idle" ELSE "off"
\* Where a thread waits to run toggle_record: a user at rest, a timer pending.
Ready(t) == IF t \in Users THEN "idle" ELSE "pending"

AllIdle == \A t \in Threads : pc[t] \in {"idle", "off", "pending"}

----------------------------------------------------------------------------
\* Array helpers (numpy)

RECURSIVE Flatten(_)
\* np.vstack(frames): the blocks' frames, in order
Flatten(blocks) ==
    IF blocks = <<>> THEN <<>> ELSE Head(blocks) \o Flatten(Tail(blocks))

Min(a, b) == IF a <= b THEN a ELSE b

\* loop_buffer[a:b] for 0 <= a, 0 <= b: a slice stops at the array's end
Slice(s, a, b) ==
    LET hi == Min(b, Len(s))
    IN  IF a >= hi THEN <<>> ELSE [i \in 1..(hi - a) |-> s[a + i]]

\* outdata.fill(0)
Zeros(n) == [i \in 1..n |-> 0]

\* outdata[:] = x assigns when x has n rows, broadcasts when x has one row,
\* and raises ValueError otherwise
Assignable(x, n) == Len(x) = n \/ Len(x) = 1
Broadcast(x, n) == IF Len(x) = n THEN x ELSE [i \in 1..n |-> x[1]]

\* chunk + indata, elementwise and unclamped
Mix(c, d) == [i \in 1..Len(d) |-> Broadcast(c, Len(d))[i] + d[i]]

----------------------------------------------------------------------------
Init ==
    /\ loop_buffer = <<>>
    /\ record_queue = <<>>
    /\ monitor_queue = <<>>
    /\ is_recording = FALSE
    /\ is_playing = FALSE
    /\ monitor_enabled = FALSE
    /\ playback_index = 0
    /\ buffer_lock = FALSE
    /\ clock = 0
    /\ cb_pc = "idle"
    /\ indata = <<>>
    /\ outdata = <<>>
    /\ cb_length = 0
    /\ cb_end = 0
    /\ chunk = <<>>
    /\ cb_error = "none"
    /\ pc = [t \in Threads |-> Rest(t)]
    /\ frames = [t \in Threads |-> <<>>]
    /\ monitor_alive = TRUE
    /\ solo = NoThread
    /\ session = <<>>
    /\ superseded = {}
    /\ drain_start = <<>>

----------------------------------------------------------------------------
\* audio_callback (lines 79-102).  An exception that leaves the callback
\* ends the stream: the driver does not call it again.

ctlvars == <<pc, frames, solo, superseded, drain_start>>

\* line 83: the driver calls the callback with a block of n frames, and the
\* callback reads is_recording
CbStart(n) ==
    /\ cb_pc = "idle"
    /\ cb_error = "none"
    /\ clock + n <= MaxInput
    /\ clock' = clock + n
    /\ indata' = [i \in 1..n |-> clock + i]
    /\ outdata' = <<>>
    /\ cb_pc' = IF is_recording THEN "put" ELSE "check"
    /\ UNCHANGED <<shared, cb_length, cb_end, chunk, cb_error, ctlvars,
                   monitor_alive, session>>

\* CbPut that also hands the block to the monitor
CbPut_Monitors ==
    /\ cb_pc = "put"
    /\ record_queue' = Append(record_queue, indata)
    /\ session' = Append(session, indata)
    /\ outdata' = Zeros(Len(indata))
    /\ monitor_queue' = IF monitor_enabled
                        THEN Append(monitor_queue, indata)
                        ELSE monitor_queue
    /\ cb_pc' = "idle"
    /\ UNCHANGED <<loop_buffer, is_recording, is_playing,
                   monitor_enabled, playback_index, buffer_lock, clock, indata,
                   cb_length, cb_end, chunk, cb_error, ctlvars, monitor_alive>>

\* lines 84-86: record_queue.put(indata.copy()); outdata.fill(0); return
CbPut ==
    /\ cb_pc = "put"
    /\ record_queue' = Append(record_queue, indata)
    /\ session' = Append(session, indata)
    /\ outdata' = Zeros(Len(indata))
    /\ cb_pc' = "idle"
    /\ UNCHANGED <<loop_buffer, monitor_queue, is_recording, is_playing,
                   monitor_enabled, playback_index, buffer_lock, clock, indata,
                   cb_length, cb_end, chunk, cb_error, ctlvars, monitor_alive>>

\* CbCheck without the test of loop_buffer.size
CbCheck_NoSizeTest ==
    /\ cb_pc = "check"
    /\ IF is_playing
       THEN /\ cb_pc' = "lock"
            /\ UNCHANGED <<outdata, monitor_queue>>
       ELSE /\ outdata' = indata
            /\ monitor_queue' = IF monitor_enabled
                                THEN Append(monitor_queue, indata)
                                ELSE monitor_queue
            /\ cb_pc' = "idle"
    /\ UNCHANGED <<loop_buffer, record_queue, is_recording, is_playing,
                   monitor_enabled, playback_index, buffer_lock, clock, indata,
                   cb_length, cb_end, chunk, cb_error, ctlvars, monitor_alive,
                   session>>

\* line 87, and lines 100-102 when the test fails: listen-through
CbCheck ==
    /\ cb_pc = "check"
    /\ IF is_playing /\ Len(loop_buffer) > 0
       THEN /\ cb_pc' = "lock"
            /\ UNCHANGED <<outdata, monitor_queue>>
       ELSE /\ outdata' = indata
            /\ monitor_queue' = IF monitor_enabled
                                THEN Append(monitor_queue, indata)
                                ELSE monitor_queue
            /\ cb_pc' = "idle"
    /\ UNCHANGED <<loop_buffer, record_queue, is_recording, is_playing,
                   monitor_enabled, playback_index, buffer_lock, clock, indata,
                   cb_length, cb_end, chunk, cb_error, ctlvars, monitor_alive,
                   session>>

\* lines 88-90: take buffer_lock, length = loop_buffer.shape[0],
\* end = playback_index + frames
CbLock ==
    /\ cb_pc = "lock"
    /\ ~buffer_lock
    /\ buffer_lock' = TRUE
    /\ cb_length' = Len(loop_buffer)
    /\ cb_end' = playback_index + Len(indata)
    /\ cb_pc' = "slice"
    /\ UNCHANGED <<loop_buffer, record_queue, monitor_queue, is_recording,
                   is_playing, monitor_enabled, playback_index, clock, indata,
                   outdata, chunk, cb_error, ctlvars, monitor_alive, session>>

\* lines 91-94: the chunk, read at playback_index as it is now
CbSlice ==
    /\ cb_pc = "slice"
    /\ chunk' = IF cb_end <= cb_length
                THEN Slice(loop_buffer, playback_index, cb_end)
                ELSE Slice(loop_buffer, playback_index, cb_length)
                     \o Slice(loop_buffer, 0, cb_end - cb_length)
    /\ cb_pc' = "advance"
    /\ UNCHANGED <<shared, clock, indata, outdata, cb_length, cb_end, cb_error,
                   ctlvars, monitor_alive, session>>

\* line 95: playback_index = end % length (ZeroDivisionError when length is
\* 0), then the lock is released
CbAdvance ==
    /\ cb_pc = "advance"
    /\ buffer_lock' = FALSE
    /\ IF cb_length = 0
       THEN /\ cb_error' = "ZeroDivisionError"
            /\ cb_pc' = "idle"
            /\ chunk' = <<>>
            /\ UNCHANGED playback_index
       ELSE /\ playback_index' = cb_end % cb_length
            /\ cb_pc' = "out"
            /\ UNCHANGED <<cb_error, chunk>>
    /\ cb_length' = 0
    /\ cb_end' = 0
    /\ UNCHANGED <<loop_buffer, record_queue, monitor_queue, is_recording,
                   is_playing, monitor_enabled, clock, indata, outdata,
                   ctlvars, monitor_alive, session>>

\* lines 96-98: outdata[:] = chunk (ValueError when the shapes do not fit),
\* then monitor_queue.put(chunk + indata) when monitoring
CbOut ==
    /\ cb_pc = "out"
    /\ cb_pc' = "idle"
    /\ chunk' = <<>>
    /\ IF Assignable(chunk, Len(indata))
       THEN /\ outdata' = Broadcast(chunk, Len(indata))
            /\ monitor_queue' = IF monitor_enabled
                                THEN Append(monitor_queue, Mix(chunk, indata))
                                ELSE monitor_queue
            /\ UNCHANGED cb_error
       ELSE /\ cb_error' = "ValueError"
            /\ UNCHANGED <<outdata, monitor_queue>>
    /\ UNCHANGED <<loop_buffer, record_queue, is_recording, is_playing,
                   monitor_enabled, playback_index, buffer_lock, clock, indata,
                   cb_length, cb_end, ctlvars, monitor_alive, session>>

audio_callback ==
    \/ \E n \in 1..MaxBlock : CbStart(n)
    \/ CbPut
    \/ CbCheck
    \/ CbLock
    \/ CbSlice
    \/ CbAdvance
    \/ CbOut

----------------------------------------------------------------------------
\* The monitor consumer (lines 200-204): pop a block, write it; a failed
\* write leaves the loop through the except clause.

MonitorWrite(ok) ==
    /\ monitor_alive
    /\ monitor_queue # <<>>
    /\ monitor_queue' = Tail(monitor_queue)
    /\ monitor_alive' = ok
    /\ UNCHANGED <<loop_buffer, record_queue, is_recording, is_playing,
                   monitor_enabled, playback_index, buffer_lock, cbvars,
                   ctlvars, session>>

start_monitor_stream == \E ok \in BOOLEAN : MonitorWrite(ok)

----------------------------------------------------------------------------
\* Control operations.  A step of thread t moves pc[t]; the history
\* variable solo follows which operation has run undisturbed.

cbstate == <<cbvars, monitor_alive>>

\* solo after a step of t that begins (b) or ends (e) an operation
SoloAfter(t, b, e) ==
    IF e THEN NoThread
    ELSE IF b \/ solo = t THEN t
    ELSE NoThread

Goto(t, to) == pc' = [pc EXCEPT ![t] = to]

\* the timers that a stop of the recording finds pending
Pending == {u \in Timers : pc[u] = "pending"}

\* ---- toggle_record (lines 112-132); a timer runs it when it fires (178)

\* line 114: if not is_recording
TrTest(t) ==
    /\ pc[t] = Ready(t)
    /\ Goto(t, IF is_recording THEN "tr_clear" ELSE "tr_set_rec")
    /\ solo' = SoloAfter(t, TRUE, FALSE)
    /\ UNCHANGED <<shared, cbstate, frames, session, superseded,
                   drain_start>>

\* TrSetRec that also empties the loop
TrSetRec_ClearsLoop(t) ==
    /\ pc[t] = "tr_set_rec"
    /\ is_recording' = TRUE
    /\ loop_buffer' = <<>>
    /\ session' = <<>>
    /\ Goto(t, "tr_set_play")
    /\ solo' = SoloAfter(t, FALSE, FALSE)
    /\ UNCHANGED <<record_queue, monitor_queue, is_playing,
                   monitor_enabled, playback_index, buffer_lock, cbstate,
                   frames, superseded, drain_start>>

\* line 115: is_recording = True
TrSetRec(t) ==
    /\ pc[t] = "tr_set_rec"
    /\ is_recording' = TRUE
    /\ session' = <<>>
    /\ Goto(t, "tr_set_play")
    /\ solo' = SoloAfter(t, FALSE, FALSE)
    /\ UNCHANGED <<loop_buffer, record_queue, monitor_queue, is_playing,
                   monitor_enabled, playback_index, buffer_lock, cbstate,
                   frames, superseded,
                   drain_start>>

\* line 116: is_playing = False
TrSetPlay(t) ==
    /\ pc[t] = "tr_set_play"
    /\ is_playing' = FALSE
    /\ Goto(t, Rest(t))
    /\ solo' = SoloAfter(t, FALSE, TRUE)
    /\ superseded' = superseded \ {t}
    /\ UNCHANGED drain_start
    /\ UNCHANGED <<loop_buffer, record_queue, monitor_queue, is_recording,
                   monitor_enabled, playback_index, buffer_lock, cbstate,
                   frames, session>>

\* TrClear without the assignment to is_recording (line 120)
TrClear_KeepRecording(t) ==
    /\ pc[t] = "tr_clear"
    /\ frames' = [frames EXCEPT ![t] = <<>>]
    /\ superseded' = superseded \cup Pending
    /\ Goto(t, "tr_empty")
    /\ solo' = SoloAfter(t, FALSE, FALSE)
    /\ UNCHANGED <<shared, cbstate, session, drain_start>>

\* lines 120-121: is_recording = False; frames = []
TrClear(t) ==
    /\ pc[t] = "tr_clear"
    /\ is_recording' = FALSE
    /\ frames' = [frames EXCEPT ![t] = <<>>]
    /\ superseded' = superseded \cup Pending
    /\ UNCHANGED drain_start
    /\ Goto(t, "tr_empty")
    /\ solo' = SoloAfter(t, FALSE, FALSE)
    /\ UNCHANGED <<loop_buffer, record_queue, monitor_queue, is_playing,
                   monitor_enabled, playback_index, buffer_lock, cbstate,
                   session>>

\* line 122: while not record_queue.empty()
TrEmpty(t) ==
    /\ pc[t] = "tr_empty"
    /\ Goto(t, IF record_queue = <<>> THEN "tr_mat" ELSE "tr_get")
    /\ solo' = SoloAfter(t, FALSE, FALSE)
    /\ drain_start' = IF frames[t] = <<>> THEN record_queue ELSE drain_start
    /\ UNCHANGED <<shared, cbstate, frames, session, superseded>>

\* TrGet taking the newest block of the queue instead of the oldest
TrGet_Newest(t) ==
    /\ pc[t] = "tr_get"
    /\ record_queue # <<>>
    /\ frames' = [frames EXCEPT
                     ![t] = Append(@, record_queue[Len(record_queue)])]
    /\ record_queue' = SubSeq(record_queue, 1, Len(record_queue) - 1)
    /\ Goto(t, "tr_empty")
    /\ solo' = SoloAfter(t, FALSE, FALSE)
    /\ UNCHANGED <<loop_buffer, monitor_queue, is_recording, is_playing,
                   monitor_enabled, playback_index, buffer_lock, cbstate,
                   session, superseded, drain_start>>

\* line 123: frames.append(record_queue.get()); get blocks on an empty queue
TrGet(t) ==
    /\ pc[t] = "tr_get"
    /\ record_queue # <<>>
    /\ frames' = [frames EXCEPT ![t] = Append(@, Head(record_queue))]
    /\ record_queue' = Tail(record_queue)
    /\ Goto(t, "tr_empty")
    /\ solo' = SoloAfter(t, FALSE, FALSE)
    /\ UNCHANGED <<loop_buffer, monitor_queue, is_recording, is_playing,
                   monitor_enabled, playback_index, buffer_lock, cbstate,
                   session, superseded,
                   drain_start>>

\* lines 124-126 and 130-131: with frames, loop_buffer = np.vstack(frames)
\* under buffer_lock; without, nothing is materialized
TrMaterialize(t) ==
    /\ pc[t] = "tr_mat"
    /\ IF frames[t] = <<>>
       THEN /\ Goto(t, Rest(t))
            /\ solo' = SoloAfter(t, FALSE, TRUE)
            /\ superseded' = superseded \ {t}
            /\ UNCHANGED loop_buffer
       ELSE /\ ~buffer_lock
            /\ loop_buffer' = Flatten(frames[t])
            /\ Goto(t, "tr_idx")
            /\ solo' = SoloAfter(t, FALSE, FALSE)
            /\ UNCHANGED superseded
    /\ drain_start' = <<>>
    /\ UNCHANGED <<record_queue, monitor_queue, is_recording, is_playing,
                   monitor_enabled, playback_index, buffer_lock, cbstate,
                   frames, session>>

\* line 127: playback_index = 0
TrIndex(t) ==
    /\ pc[t] = "tr_idx"
    /\ playback_index' = 0
    /\ Goto(t, "tr_play")
    /\ solo' = SoloAfter(t, FALSE, FALSE)
    /\ UNCHANGED <<loop_buffer, record_queue, monitor_queue, is_recording,
                   is_playing, monitor_enabled, buffer_lock, cbstate, frames,
                   session, superseded,
                   drain_start>>

\* line 128: is_playing = True
TrPlay(t) ==
    /\ pc[t] = "tr_play"
    /\ is_playing' = TRUE
    /\ frames' = [frames EXCEPT ![t] = <<>>]
    /\ Goto(t, Rest(t))
    /\ solo' = SoloAfter(t, FALSE, TRUE)
    /\ superseded' = superseded \ {t}
    /\ UNCHANGED drain_start
    /\ UNCHANGED <<loop_buffer, record_queue, monitor_queue, is_recording,
                   monitor_enabled, playback_index, buffer_lock, cbstate,
                   session>>

toggle_record(t) ==
    \/ TrTest(t)
    \/ TrSetRec(t)
    \/ TrSetPlay(t)
    \/ TrClear(t)
    \/ TrEmpty(t)
    \/ TrGet(t)
    \/ TrMaterialize(t)
    \/ TrIndex(t)
    \/ TrPlay(t)

\* ---- reset_loop (lines 135-145)

\* lines 137-138: loop_buffer = np.empty(...) under buffer_lock
RsBuffer(t) ==
    /\ t \in Users
    /\ pc[t] = "idle"
    /\ ~buffer_lock
    /\ loop_buffer' = <<>>
    /\ Goto(t, "rs_rec")
    /\ solo' = SoloAfter(t, TRUE, FALSE)
    /\ UNCHANGED <<record_queue, monitor_queue, is_recording, is_playing,
                   monitor_enabled, playback_index, buffer_lock, cbstate,
                   frames, session, superseded,
                   drain_start>>

\* RsRec without the assignment (reset_loop of a version that does not stop
\* the recording)
RsRec_KeepRecording(t) ==
    /\ pc[t] = "rs_rec"
    /\ Goto(t, "rs_empty")
    /\ solo' = SoloAfter(t, FALSE, FALSE)
    /\ UNCHANGED <<shared, cbstate, frames, session, superseded,
                   drain_start>>

\* line 139: is_recording = False
RsRec(t) ==
    /\ pc[t] = "rs_rec"
    /\ is_recording' = FALSE
    /\ superseded' = superseded \cup Pending
    /\ UNCHANGED drain_start
    /\ Goto(t, "rs_empty")
    /\ solo' = SoloAfter(t, FALSE, FALSE)
    /\ UNCHANGED <<loop_buffer, record_queue, monitor_queue, is_playing,
                   monitor_enabled, playback_index, buffer_lock, cbstate,
                   frames, session>>

\* line 140: while not record_queue.empty()
RsEmpty(t) ==
    /\ pc[t] = "rs_empty"
    /\ Goto(t, IF record_queue = <<>> THEN "rs_play" ELSE "rs_get")
    /\ solo' = SoloAfter(t, FALSE, FALSE)
    /\ UNCHANGED <<shared, cbstate, frames, session, superseded,
                   drain_start>>

\* line 141: record_queue.get()
RsGet(t) ==
    /\ pc[t] = "rs_get"
    /\ record_queue # <<>>
    /\ record_queue' = Tail(record_queue)
    /\ Goto(t, "rs_empty")
    /\ solo' = SoloAfter(t, FALSE, FALSE)
    /\ UNCHANGED <<loop_buffer, monitor_queue, is_recording, is_playing,
                   monitor_enabled, playback_index, buffer_lock, cbstate,
                   frames, session, superseded,
                   drain_start>>

\* line 142: is_playing = False
RsPlay(t) ==
    /\ pc[t] = "rs_play"
    /\ is_playing' = FALSE
    /\ Goto(t, "rs_idx")
    /\ solo' = SoloAfter(t, FALSE, FALSE)
    /\ UNCHANGED <<loop_buffer, record_queue, monitor_queue, is_recording,
                   monitor_enabled, playback_index, buffer_lock, cbstate,
                   frames, session, superseded,
                   drain_start>>

\* line 143: playback_index = 0
RsIndex(t) ==
    /\ pc[t] = "rs_idx"
    /\ playback_index' = 0
    /\ Goto(t, "idle")
    /\ solo' = SoloAfter(t, FALSE, TRUE)
    /\ UNCHANGED <<loop_buffer, record_queue, monitor_queue, is_recording,
                   is_playing, monitor_enabled, buffer_lock, cbstate, frames,
                   session, superseded,
                   drain_start>>

reset_loop(t) ==
    \/ RsBuffer(t)
    \/ RsRec(t)
    \/ RsEmpty(t)
    \/ RsGet(t)
    \/ RsPlay(t)
    \/ RsIndex(t)

\* ---- toggle_playback (lines 148-151), the pause hotkey
toggle_playback(t) ==
    /\ t \in Users
    /\ pc[t] = "idle"
    /\ is_playing' = ~is_playing
    /\ solo' = SoloAfter(t, TRUE, TRUE)
    /\ UNCHANGED <<loop_buffer, record_queue, monitor_queue, is_recording,
                   monitor_enabled, playback_index, buffer_lock, cbstate, pc,
                   frames, session, superseded,
                   drain_start>>

\* ---- toggle_monitor (lines 154-157), the monitor button
toggle_monitor(t) ==
    /\ t \in Users
    /\ pc[t] = "idle"
    /\ monitor_enabled' = ~monitor_enabled
    /\ solo' = SoloAfter(t, TRUE, TRUE)
    /\ UNCHANGED <<loop_buffer, record_queue, monitor_queue, is_recording,
                   is_playing, playback_index, buffer_lock, cbstate, pc,
                   frames, session, superseded,
                   drain_start>>

\* ---- record_for_duration (lines 160-178)

RfPcs == {"rf_empty", "rf_get", "rf_idx", "rf_rec", "rf_play"}
FreeTimers == {u \in Timers : pc[u] = "off"}
InRecordFor == {u \in Users : pc[u] \in RfPcs}
\* the model has room for the timer of one more record_for_duration
TimerRoom == Cardinality(FreeTimers) > Cardinality(InRecordFor)
NextTimer == CHOOSE u \in FreeTimers : TRUE

\* RfTest without the test of is_recording (lines 168-170)
RfTest_NoRecordingTest(t, valid) ==
    /\ t \in Users
    /\ pc[t] = "idle"
    /\ IF valid
       THEN /\ TimerRoom
            /\ Goto(t, "rf_empty")
            /\ solo' = SoloAfter(t, TRUE, FALSE)
       ELSE /\ UNCHANGED pc
            /\ solo' = SoloAfter(t, TRUE, TRUE)
    /\ UNCHANGED <<shared, cbstate, frames, session, superseded,
                   drain_start>>

\* lines 162-170: a duration that does not parse, or is_recording, returns
\* without effect
RfTest(t, valid) ==
    /\ t \in Users
    /\ pc[t] = "idle"
    /\ IF valid /\ ~is_recording
       THEN /\ TimerRoom
            /\ Goto(t, "rf_empty")
            /\ solo' = SoloAfter(t, TRUE, FALSE)
       ELSE /\ UNCHANGED pc
            /\ solo' = SoloAfter(t, TRUE, TRUE)
    /\ UNCHANGED <<shared, cbstate, frames, session, superseded,
                   drain_start>>

\* line 171: while not record_queue.empty()
RfEmpty(t) ==
    /\ pc[t] = "rf_empty"
    /\ Goto(t, IF record_queue = <<>> THEN "rf_idx" ELSE "rf_get")
    /\ solo' = SoloAfter(t, FALSE, FALSE)
    /\ UNCHANGED <<shared, cbstate, frames, session, superseded,
                   drain_start>>

\* line 172: record_queue.get()
RfGet(t) ==
    /\ pc[t] = "rf_get"
    /\ record_queue # <<>>
    /\ record_queue' = Tail(record_queue)
    /\ Goto(t, "rf_empty")
    /\ solo' = SoloAfter(t, FALSE, FALSE)
    /\ UNCHANGED <<loop_buffer, monitor_queue, is_recording, is_playing,
                   monitor_enabled, playback_index, buffer_lock, cbstate,
                   frames, session, superseded,
                   drain_start>>

\* line 173: playback_index = 0
RfIndex(t) ==
    /\ pc[t] = "rf_idx"
    /\ playback_index' = 0
    /\ Goto(t, "rf_rec")
    /\ solo' = SoloAfter(t, FALSE, FALSE)
    /\ UNCHANGED <<loop_buffer, record_queue, monitor_queue, is_recording,
                   is_playing, monitor_enabled, buffer_lock, cbstate, frames,
                   session, superseded,
                   drain_start>>

\* line 174: is_recording = True
RfSetRec(t) ==
    /\ pc[t] = "rf_rec"
    /\ is_recording' = TRUE
    /\ session' = <<>>
    /\ Goto(t, "rf_play")
    /\ solo' = SoloAfter(t, FALSE, FALSE)
    /\ UNCHANGED <<loop_buffer, record_queue, monitor_queue, is_playing,
                   monitor_enabled, playback_index, buffer_lock, cbstate,
                   frames, superseded,
                   drain_start>>

\* lines 175-178: is_playing = False; threading.Timer(sec, toggle_record).start()
RfSetPlay(t) ==
    /\ pc[t] = "rf_play"
    /\ is_playing' = FALSE
    /\ pc' = [pc EXCEPT ![t] = "idle", ![NextTimer] = "pending"]
    /\ solo' = SoloAfter(t, FALSE, TRUE)
    /\ UNCHANGED <<loop_buffer, record_queue, monitor_queue, is_recording,
                   monitor_enabled, playback_index, buffer_lock, cbstate,
                   frames, session, superseded,
                   drain_start>>

record_for_duration(t) ==
    \/ \E valid \in BOOLEAN : RfTest(t, valid)
    \/ RfEmpty(t)
    \/ RfGet(t)
    \/ RfIndex(t)
    \/ RfSetRec(t)
    \/ RfSetPlay(t)

----------------------------------------------------------------------------
Control(t) ==
    \/ toggle_record(t)
    \/ reset_loop(t)
    \/ toggle_playback(t)
    \/ toggle_monitor(t)
    \/ record_for_duration(t)

Next ==
    \/ audio_callback
    \/ start_monitor_stream
    \/ \E t \in Threads : Control(t)

Spec == Init /\ [][Next]_vars

\* The engine with monitoring left off, as it is at startup (line 34).
\* monitor_enabled, monitor_queue and the consumer are written and never read
\* by the rest of the engine, so the engine's other variables go through the
\* same values under SpecCore as under Spec.
NextCore ==
    \/ audio_callback
    \/ \E t \in Threads :
          \/ toggle_record(t)
          \/ reset_loop(t)
          \/ toggle_playback(t)
          \/ record_for_duration(t)

SpecCore == Init /\ [][NextCore]_vars

----------------------------------------------------------------------------
\* Properties

\* the cursor, block size and loop length of the block audio_callback is
\* playing, once it holds the lock
CbN == Len(indata)
CbC == cb_end - Len(indata)
\* the claimed read is about a cursor inside the loop that no control
\* operation has moved since the callback read it, with no control operation
\* in progress
CbReadCase ==
    /\ AllIdle
    /\ cb_length > 0
    /\ CbC < cb_length
    /\ playback_index = CbC

\* position in the loop (from 0) of the i-th frame (from 1) of the claimed
\* read: [C, L) and then [0, N - (L - C))
ClaimedPos(i) ==
    IF CbC + i - 1 < cb_length THEN CbC + i - 1 ELSE i - 1 - (cb_length - CbC)

\* C1: between control operations, recording and playing are never both true.
C1_NeverRecordingAndPlaying ==
    AllIdle => ~(is_recording /\ is_playing)

\* C2: a timer that fires after its recording was stopped and finds the
\* recording off changes neither recording, playing, the loop nor the
\* cursor (with no user operation in progress).
C2_TimerAfterStopIsNoOp ==
    [][\A t \in Timers :
          (/\ t \in superseded
           /\ \A u \in Users : pc[u] = "idle"
           /\ pc[t] \in {"tr_set_rec", "tr_set_play"}
           /\ pc'[t] # pc[t])
          => UNCHANGED <<is_recording, is_playing, loop_buffer,
                         playback_index>>]_vars

\* C3: a timer whose recording was stopped before it fired, and that runs
\* while a later session is recording (with no user operation in progress),
\* leaves that session recording and its captured blocks in place.
C3_OldTimerSparesNewSession ==
    [][\A t \in Timers :
          (/\ t \in superseded
           /\ \A u \in Users : pc[u] = "idle"
           /\ pc'[t] # pc[t]
           /\ is_recording)
          => (is_recording' /\ record_queue' = record_queue)]_vars

\* C4: when reset_loop completes, having run without a step of another
\* control operation in between (callback blocks may interleave, and the
\* state it started from is any reachable one), playing and recording are
\* false, the loop is empty and the cursor is 0.
C4_ResetAbsorbing ==
    [][\A t \in Users :
          (pc[t] = "rs_idx" /\ pc'[t] = "idle" /\ solo = t)
          => (/\ ~is_playing'
              /\ ~is_recording'
              /\ loop_buffer' = <<>>
              /\ playback_index' = 0)]_vars

\* C4 witness: a reset that ran undisturbed is about to complete, has emptied
\* a loop that was being played (the cursor is still where playback left it)
\* and has drained the queue.
C4_ResetWitness ==
    /\ pc[USER] = "rs_idx"
    /\ solo = USER
    /\ playback_index > 0
    /\ loop_buffer = <<>>
    /\ clock > playback_index

\* C5: toggle_playback while recording changes nothing; while not recording
\* it flips playing and changes nothing else.
C5_TogglePauseGuarded ==
    [][(\E t \in Users : toggle_playback(t))
          => IF is_recording
             THEN UNCHANGED <<is_playing, is_recording, loop_buffer,
                              playback_index, record_queue>>
             ELSE /\ is_playing' = ~is_playing
                  /\ UNCHANGED <<is_recording, loop_buffer, playback_index,
                                 record_queue>>]_vars

\* C6: a playing block of N frames at cursor C over a loop of length L > 0
\* reads frames [C, C+N) when C+N <= L, otherwise [C, L) and then
\* [0, N-(L-C)), and leaves the cursor at (C+N) mod L.
C6_WraparoundRead ==
    [][/\ (cb_pc = "slice" /\ cb_pc' = "advance" /\ CbReadCase)
          => /\ Len(chunk') = CbN
             /\ \A i \in 1..CbN :
                   /\ ClaimedPos(i) < cb_length
                   /\ chunk'[i] = loop_buffer[ClaimedPos(i) + 1]
       /\ (cb_pc = "advance" /\ cb_pc' # "advance" /\ cb_length > 0)
          => playback_index' = (CbC + CbN) % cb_length]_vars

\* C7: the chunk a playing block composes has exactly N frames, for every
\* loop length L > 0, cursor in [0, L) and block size N.
C7_ChunkHasNFrames ==
    (cb_pc = "advance" /\ CbReadCase) => Len(chunk) = CbN

\* C8: a block that finds recording off goes on to the test of line 87, and
\* when that test finds playing off or the loop empty, the block's output is
\* its input, it takes neither the lock nor a chunk of the loop, and the
\* loop and the cursor stay as they are.
C8_ListenThrough ==
    [][/\ (cb_pc = "idle" /\ cb_pc' # "idle" /\ ~is_recording)
          => cb_pc' = "check"
       /\ (cb_pc = "check" /\ cb_pc' # "check"
           /\ (~is_playing \/ Len(loop_buffer) = 0))
          => /\ cb_pc' = "idle"
             /\ outdata' = indata
             /\ Len(outdata') = CbN
             /\ chunk' = <<>>
             /\ cb_error' = "none"
             /\ UNCHANGED <<loop_buffer, playback_index, buffer_lock>>]_vars

\* C8 witness: a block has returned its input as output while playing was on
\* over an empty loop.
C8_ListenThroughWitness ==
    /\ cb_pc = "idle"
    /\ indata # <<>>
    /\ outdata = indata
    /\ is_playing
    /\ ~is_recording
    /\ loop_buffer = <<>>
    /\ cb_error = "none"

\* C9: the callback never reaches the cursor's modulo (line 95) with a
\* length of 0.
C9_NoModuloByZero ==
    cb_pc = "advance" => cb_length > 0

\* C10: a stop that ran without a step of another control operation
\* materializes the blocks captured since recording was switched on, in
\* order and nothing else (a block put after the drain had passed it is not
\* held against the claim), and ends with cursor 0, recording off and
\* playing on.
C10_RoundTrip ==
    [][\A t \in Threads :
          solo = t =>
             /\ (pc[t] = "tr_mat" /\ pc'[t] = "tr_idx")
                => \E k \in 0..Len(session) :
                      loop_buffer' = Flatten(SubSeq(session, 1, k))
             /\ (pc[t] = "tr_play" /\ pc'[t] = Rest(t))
                => (playback_index' = 0 /\ ~is_recording' /\ is_playing')]_vars

\* the blocks of record_queue that were put before recording was last
\* switched on (every block carries frames of its own, so a block of the
\* queue that is not in session is an older one)
StaleBlocks ==
    {i \in 1..Len(record_queue) :
        \A j \in 1..Len(session) : session[j] # record_queue[i]}

\* C11: when a start of recording completes (toggle_record's start branch or
\* record_for_duration, run without a step of another control operation),
\* record_queue holds no block that was put before recording was switched on.
C11_StartDiscardsQueue ==
    [][\A t \in Threads :
          (/\ solo = t
           /\ pc[t] \in {"tr_set_play", "rf_play"}
           /\ pc'[t] = Rest(t))
          => StaleBlocks' = {}]_vars

\* C12: record_for_duration invoked while recording is rejected: no user
\* enters its body (so no timer is scheduled), and the invocation leaves
\* recording, playing, the cursor, the loop, the captured blocks and every
\* thread's position as they are.
C12_RecordForRejected ==
    [][\A t \in Users :
          is_recording =>
             /\ pc[t] = "idle" => pc'[t] \notin RfPcs
             /\ (\E valid \in BOOLEAN : RfTest(t, valid))
                => UNCHANGED <<is_recording, is_playing, playback_index,
                               loop_buffer, record_queue, pc>>]_vars

\* C12 witness: a state in which record_for_duration is rejected: a session
\* is recording with a block captured, over an earlier loop, no timer
\* pending.
C12_RejectedWitness ==
    /\ is_recording
    /\ pc[USER] = "idle"
    /\ pc[TIMER] = "off"
    /\ record_queue # <<>>
    /\ loop_buffer # <<>>
    /\ ENABLED (\E valid \in BOOLEAN : RfTest(USER, valid))

\* C13: a stop that drains nothing (the queue is empty all along) leaves
\* playing, the loop and the cursor as they are at each of its steps, and,
\* having run without a step of another control operation, completes with
\* recording off.
C13_EmptyStop ==
    [][\A t \in Threads :
          /\ (/\ pc[t] \in {"tr_clear", "tr_empty", "tr_mat"}
              /\ pc'[t] # pc[t]
              /\ frames[t] = <<>>
              /\ pc'[t] \notin {"tr_get", "tr_idx"})
             => UNCHANGED <<is_playing, loop_buffer, playback_index>>
          /\ (/\ pc[t] = "tr_mat"
              /\ frames[t] = <<>>
              /\ pc'[t] # pc[t]
              /\ solo = t)
             => (pc'[t] = Rest(t) /\ ~is_recording')]_vars

\* C13 witness: a stop that found the queue empty is about to complete, over
\* an earlier loop whose cursor playback had moved.
C13_EmptyStopWitness ==
    /\ pc[USER] = "tr_mat"
    /\ frames[USER] = <<>>
    /\ solo = USER
    /\ record_queue = <<>>
    /\ loop_buffer # <<>>
    /\ playback_index > 0

\* C14: monitor_queue never holds more than a fixed number of blocks, and a
\* callback step that finds it full leaves it as it is.
C14_MonitorSinkBounded ==
    /\ Len(monitor_queue) <= MonitorCapacity
    /\ (Len(monitor_queue) = MonitorCapacity /\ monitor_enabled
        /\ cb_pc \in {"check", "out"})
       => ~ENABLED (audio_callback
                    /\ Len(monitor_queue') > Len(monitor_queue))

\* C15: whatever writes have failed, the consumer loop is still running, so
\* a block waiting in monitor_queue can always be popped.
C15_ConsumerSurvivesFailedWrite ==
    monitor_queue # <<>> => ENABLED start_monitor_stream

\* C16: the timer of a recording that nothing has stopped since
\* record_for_duration (no toggle_record stop, no reset_loop), whose
\* toggle_record runs without a step of another control operation, does not
\* take the start branch and completes with recording off; it completes
\* without a loop only if the queue was empty when its drain began, and
\* otherwise with a non-empty loop, cursor 0 and playing on.
C16_TimedRecordCompletes ==
    [][\A t \in Timers :
          (/\ solo = t
           /\ t \notin superseded
           /\ pc[t] # "off"
           /\ pc'[t] = "off")
          => /\ pc[t] # "tr_set_play"
             /\ ~is_recording'
             /\ pc[t] = "tr_mat" => drain_start = <<>>
             /\ pc[t] = "tr_play"
                => (/\ loop_buffer' # <<>>
                    /\ playback_index' = 0
                    /\ is_playing')]_vars

\* C17: a stop interleaved with callback blocks only (no step of another
\* control operation) materializes whole blocks in the order of capture:
\* first every block that was in record_queue when its drain began, then
\* consecutive blocks that the callback put during the drain; a block put
\* after the drain is absent as a whole.
C17_StopSeesAllBlocks ==
    [][\A t \in Threads :
          (/\ solo = t
           /\ pc[t] = "tr_mat"
           /\ pc'[t] = "tr_idx")
          => LET f == frames[t]
                 d == drain_start
                 k == Len(f) - Len(d)
             IN  /\ k >= 0
                 /\ SubSeq(f, 1, Len(d)) = d
                 /\ \E a \in 0..Len(session) :
                       /\ a + k <= Len(session)
                       /\ SubSeq(f, Len(d) + 1, Len(f))
                             = SubSeq(session, a + 1, a + k)
                 /\ loop_buffer' = Flatten(f)
                 /\ Len(loop_buffer') >= Len(Flatten(d))]_vars

\* C17 witness: a stop that ran undisturbed is about to materialize; its
\* drain found the queue non-empty and collected a further block that the
\* callback put while it was draining.
C17_StopWitness ==
    /\ pc[USER] = "tr_mat"
    /\ solo = USER
    /\ drain_start # <<>>
    /\ Len(frames[USER]) > Len(drain_start)

\* C18: in every state the cursor is 0 when the loop is empty and inside
\* [0, L) when the loop has L > 0 frames.
C18_CursorInRange ==
    IF Len(loop_buffer) = 0
    THEN playback_index = 0
    ELSE 0 <= playback_index /\ playback_index < Len(loop_buffer)

\* C19: a block that reads recording on (line 83) goes to the put, and the
\* put appends the one input block to the tail of record_queue, makes the
\* output N frames of silence, pushes nothing to monitor_queue and leaves
\* the loop and the cursor as they are; a block that reads recording off
\* goes to the test of line 87, and no other step of the callback changes
\* record_queue.
C19_RecordingBlock ==
    [][/\ (cb_pc = "idle" /\ cb_pc' # "idle")
          => cb_pc' = (IF is_recording THEN "put" ELSE "check")
       /\ (cb_pc = "put" /\ cb_pc' # "put")
          => /\ cb_pc' = "idle"
             /\ record_queue' = Append(record_queue, indata)
             /\ outdata' = Zeros(CbN)
             /\ Len(outdata') = CbN
             /\ cb_error' = "none"
             /\ UNCHANGED <<monitor_queue, loop_buffer, playback_index>>
       /\ (cb_pc # "put" /\ cb_pc' # cb_pc)
          => record_queue' = record_queue]_vars

\* C19 witness: with monitoring on, a block has been put and answered with
\* silence after recording was switched off and the stop had completed.
C19_LatePutWitness ==
    /\ AllIdle
    /\ ~is_recording
    /\ cb_pc = "idle"
    /\ indata # <<>>
    /\ record_queue # <<>>
    /\ record_queue[Len(record_queue)] = indata
    /\ outdata = Zeros(Len(indata))
    /\ monitor_enabled
    /\ monitor_queue = <<>>

\* C19 as stated: while recording is off, no step of the callback changes
\* record_queue.
C19_NoAppendWhileNotRecording ==
    [][(cb_pc' # cb_pc /\ ~is_recording)
          => record_queue' = record_queue]_vars

\* C20: loop_buffer changes only in the step of a stop that materializes the
\* blocks it drained (line 126) and in the first step of reset_loop (line
\* 138); every other step of the callback, the consumer and the control
\* operations leaves it as it is.
C20_LoopChangesOnlyOnStopOrReset ==
    [][loop_buffer' # loop_buffer
          => \/ \E t \in Threads :
                   /\ pc[t] = "tr_mat"
                   /\ pc'[t] = "tr_idx"
                   /\ frames[t] # <<>>
                   /\ loop_buffer' = Flatten(frames[t])
             \/ \E t \in Users :
                   /\ pc[t] = "idle"
                   /\ pc'[t] = "rs_rec"
                   /\ loop_buffer' = <<>>]_vars

\* C20 witness: a loop that playback has advanced through is still there
\* after monitoring was switched on and a new recording was started and has
\* captured a block.
C20_LoopKeptWitness ==
    /\ loop_buffer # <<>>
    /\ playback_index > 0
    /\ is_recording
    /\ monitor_enabled
    /\ record_queue # <<>>
    /\ pc[USER] = "idle"

\* C21: with monitoring on, a playing block (with no control operation in
\* progress when it completes) pushes to monitor_queue the
\* elementwise sum of its chunk of N frames and its input, and a
\* listen-through block pushes its input; with monitoring off no step of the
\* callback pushes anything.
C21_MonitorMixing ==
    [][/\ (cb_pc = "out" /\ cb_pc' # "out" /\ monitor_enabled /\ AllIdle)
          => /\ Len(chunk) = CbN
             /\ monitor_queue'
                   = Append(monitor_queue,
                            [i \in 1..CbN |-> chunk[i] + indata[i]])
       /\ (cb_pc = "check" /\ cb_pc' = "idle" /\ monitor_enabled)
          => monitor_queue' = Append(monitor_queue, indata)
       /\ (cb_pc' # cb_pc /\ ~monitor_enabled)
          => monitor_queue' = monitor_queue]_vars

\* every block that thread t has drained was put in the session that is
\* being stopped
DrainedFromSession(t) ==
    \A i \in 1..Len(frames[t]) :
       \E j \in 1..Len(session) : session[j] = frames[t][i]

\* C22: when a manual stop and a timer's stop run toggle_record at once on
\* one session, one of them materializes: they never both hold blocks of the
\* session (each would assign its own part of the session to the loop).
C22_SingleMaterialization ==
    \A t, u \in Threads :
       (/\ t # u
        /\ DrainedFromSession(t)
        /\ DrainedFromSession(u))
       => (frames[t] = <<>> \/ frames[u] = <<>>)

\* the positions of the record_queue.get() calls (lines 123, 141, 172)
GetPcs == {"tr_get", "rs_get", "rf_get"}

\* a block can still arrive on record_queue for a get of thread t: recording
\* is on, the callback is about to put, or another control thread can still
\* start a recording
CanStillPut(t) ==
    \/ is_recording
    \/ cb_pc = "put"
    \/ \E u \in Threads \ {t} : pc[u] \notin (GetPcs \cup {"off"})

\* C23: no control thread is left at a record_queue.get() with the queue
\* empty and no block ever to arrive.
C23_DrainTerminates ==
    \A t \in Threads :
       (pc[t] \in GetPcs /\ record_queue = <<>>) => CanStillPut(t)

====
